---- MODULE Spec2Model ----
(***************************************************************************)
(* The SiFive SPI master driver (chips/sifive/src/spi.rs) as a state       *)
(* machine: the driver's cells, the memory-mapped registers it programs,   *)
(* the two hardware FIFOs behind txdata/rxdata, and a loopback peer that   *)
(* echoes every transmitted byte.  One action per driver operation; each   *)
(* action is the whole function, executed without preemption (the kernel   *)
(* runs interrupt handlers to completion from its main loop).              *)
(***************************************************************************)
EXTENDS Integers, Sequences, FiniteSets, TLC

VARIABLES
    \* ---- struct Spi (spi.rs:137-146)
    client,         \* OptionalCell: TRUE iff a client is registered
    busy,           \* Cell<bool>
    tx_buf,         \* TakeCell: the held write buffer, or NoBuf
    rx_buf,         \* TakeCell: the held read buffer, or NoBuf
    io_len,         \* Cell<usize>
    tx_offset,      \* Cell<usize>
    rx_offset,      \* Cell<usize>
    \* ---- SpiRegisters (spi.rs:13-57)
    sckdiv,         \* sckdiv.div, 12 bits
    sckmode,        \* [pha, pol]
    csid,
    csdef,
    csmode,         \* "AUTO" | "HOLD" | "OFF"
    fmt,            \* [proto, endian, dir, len]
    txmark,         \* 3 bits
    rxmark,         \* 3 bits
    ie,             \* [txwm, rxwm]
    \* ---- the hardware behind txdata / rxdata
    txfifo,         \* bytes written to txdata and not yet shifted out
    rxfifo,         \* bytes shifted in and not yet read from rxdata
    \* ---- the build and the caller's view
    overflow_checks,\* TRUE: arithmetic overflow panics; FALSE: it wraps
    fault,          \* "none", or the panic that halted the kernel
    ev,             \* what the last operation returned or called back
    nsub,           \* read_write_bytes calls made so far (names the buffers)
    nacc,           \* submissions accepted while a client was registered
    ncb,            \* read_write_done callbacks made so far
    cur,            \* the accepted submission now in flight, or NoReq
    pushed,         \* bytes written to txdata for the submission in flight
    ncalls          \* calls of the SpiMaster interface made so far

drv  == <<client, busy, tx_buf, rx_buf, io_len, tx_offset, rx_offset>>
xfer == <<busy, tx_buf, rx_buf, io_len, tx_offset, rx_offset>>
regs == <<sckdiv, sckmode, csid, csdef, csmode, fmt, txmark, rxmark, ie>>
hw   == <<txfifo, rxfifo>>
obs  == <<nsub, nacc, ncb, cur, pushed>>
vars == <<drv, regs, hw, overflow_checks, fault, ev, obs, ncalls>>

(***************************************************************************)
(* Bounds of the model.                                                    *)
(***************************************************************************)
MaxLen == 10
MaxCalls == 3

(***************************************************************************)
(* Program constants.                                                      *)
(***************************************************************************)
Burst == 7
\* the depth of each hardware FIFO
FifoDepth == 8
RefClock == 8000000
MinRate == 1954
DivBits == 12
MarkBits == 3

\* the submissions tried: <<write length, read length or -1 for None, len>>
Shapes ==
    { <<MaxLen, MaxLen, MaxLen>>,       \* two bursts, nothing binds
      <<MaxLen, MaxLen - 2, MaxLen>>,   \* the read buffer is the shortest
      <<1, MaxLen, MaxLen>>,            \* the write buffer is the shortest
      <<MaxLen, MaxLen, 2>>,            \* len is the shortest
      <<MaxLen, -1, MaxLen>>,           \* write-only, two bursts
      <<MaxLen, 0, MaxLen>>,            \* an empty read buffer
      <<0, MaxLen, MaxLen>>,            \* an empty write buffer
      <<MaxLen, MaxLen, 0>> }           \* len 0
Rates == {MinRate - 1, MinRate, 1000000, RefClock, RefClock + 1}
ChipSelects == {0, 1}
ByteVals == {165}

Min(a, b) == IF a <= b THEN a ELSE b

(***************************************************************************)
(* Buffers.  A &'static mut [u8] is an owned value: the model names each   *)
(* by the submission that brought it and keeps its bytes.                  *)
(***************************************************************************)
NoBuf == [kind |-> "none", id |-> 0, bytes |-> <<>>]
WriteByte(id, i) == 32 * id + i
WriteBuffer(id, n) == [kind |-> "w", id |-> id, bytes |-> [i \in 1..n |-> WriteByte(id, i)]]
ReadBuffer(id, n) == [kind |-> "r", id |-> id, bytes |-> [i \in 1..n |-> 0]]
NoReq == [w |-> NoBuf, r |-> NoBuf, len |-> 0]
\* the registers and busy where the handler calls read_write_done, with the
\* mode it was entered in and the modes it wrote to csmode before
NoSeen == [entry |-> "", frame |-> <<>>, csmode |-> "",
           ie |-> [txwm |-> FALSE, rxwm |-> FALSE], busy |-> FALSE]

Ev(op, code, w, r, val) ==
    [op |-> op, code |-> code, w |-> w, r |-> r, val |-> val,
     arg |-> 0, cb |-> FALSE, req |-> NoReq, pushed |-> 0, seen |-> NoSeen]

(***************************************************************************)
(* Register fields.  FIELD.val(x) masks x to the field's width.            *)
(* A value that wrapped below zero (usize, no overflow checks) is given as  *)
(* the negative integer: 2^32 is a multiple of 2^bits, so the field is the *)
(* same, and % is the non-negative remainder.                              *)
FieldVal(x, bits) == x % (2 ^ bits)

\* ip.rxwm: the receive FIFO holds more than rxmark entries
IpRxwm == Len(rxfifo) > rxmark
\* ip.txwm: the transmit FIFO holds fewer than txmark entries
IpTxwm == Len(txfifo) < txmark
\* the interrupt line: a pending source that is enabled
IrqPending == (ie.rxwm /\ IpRxwm) \/ (ie.txwm /\ IpTxwm)

\* a write to txdata: ignored when the FIFO is full
TxWrite(fifo, bytes) == SubSeq(fifo \o bytes, 1, Min(FifoDepth, Len(fifo) + Len(bytes)))

Init ==
    /\ client = FALSE
    /\ busy = FALSE
    /\ tx_buf = NoBuf
    /\ rx_buf = NoBuf
    /\ io_len = 0
    /\ tx_offset = 0
    /\ rx_offset = 0
    /\ sckdiv = 3
    /\ sckmode = [pha |-> 0, pol |-> 0]
    /\ csid = 0
    /\ csdef = "0xFFFFFFFF"
    /\ csmode = "HOLD"
    /\ fmt = [proto |-> "Single", endian |-> "Big", dir |-> "Rx", len |-> 8]
    /\ txmark = 0
    /\ rxmark = 0
    /\ ie = [txwm |-> FALSE, rxwm |-> FALSE]
    /\ txfifo = <<>>
    /\ rxfifo = <<>>
    /\ overflow_checks \in BOOLEAN
    /\ fault = "none"
    /\ ev = Ev("new", "OK", NoBuf, NoBuf, 0)
    /\ nsub = 0
    /\ nacc = 0
    /\ ncb = 0
    /\ cur = NoReq
    /\ pushed = 0
    /\ ncalls = 0

\* a panic: the kernel halts (panic = abort) and nothing runs afterwards
Panic(what) ==
    /\ fault' = what
    /\ UNCHANGED <<drv, regs, hw, overflow_checks, ev, obs, ncalls>>

(***************************************************************************)
(* SpiMaster::init                                                         *)
(***************************************************************************)
init ==
    /\ fault = "none"
    /\ ncalls < MaxCalls
    /\ ncalls' = ncalls + 1
    /\ sckmode' = [pha |-> 0, pol |-> 0]
    /\ fmt' = [proto |-> "Single", endian |-> "Big", dir |-> "Rx", len |-> 8]
    /\ ie' = [txwm |-> FALSE, rxwm |-> FALSE]
    /\ csdef' = "0xFFFFFFFF"
    /\ csid' = 0
    /\ txmark' = 0
    /\ csmode' = "HOLD"
    /\ io_len' = 0
    /\ tx_offset' = 0
    /\ rx_offset' = 0
    /\ busy' = FALSE
    /\ ev' = Ev("init", "OK", NoBuf, NoBuf, 0)
    /\ UNCHANGED <<client, tx_buf, rx_buf, sckdiv, rxmark, hw, overflow_checks, fault, obs>>

set_client ==
    /\ fault = "none"
    /\ client' = TRUE
    /\ ev' = Ev("set_client", "OK", NoBuf, NoBuf, 0)
    /\ UNCHANGED <<xfer, regs, hw, overflow_checks, fault, obs, ncalls>>

is_busy == busy

(***************************************************************************)
(* SpiMaster::read_write_bytes                                             *)
(***************************************************************************)
\* a mutant of TxLen: the requested length is forgotten
TxLen_IgnoresLen(len, w) == Len(w.bytes)
TxLen(len, w) == Min(len, Len(w.bytes))
RxLen(r) == IF r = NoBuf THEN 0 ELSE Len(r.bytes)
IoLen(tx_len, rx_len) == Min(tx_len, rx_len)
\* a mutant of FirstBurst: the burst is cut from tx_len, not from io_len
FirstBurst_OfTxLen(tx_len, io) == Min(Burst, tx_len)
\* a mutant of FirstBurst: the burst is not cut at 7
FirstBurst_Uncut(tx_len, io) == io
FirstBurst(tx_len, io) == Min(Burst, io)
\* a mutant of RejectCode: the busy test is missing
RejectCode_NoBusyTest(tx_len, b) ==
    IF tx_len = 0 THEN "INVAL" ELSE "OK"
\* the two early returns, in the order the code makes them
RejectCode(tx_len, b) ==
    IF tx_len = 0 THEN "INVAL" ELSE IF b THEN "BUSY" ELSE "OK"

read_write_bytes(w, r, len) ==
    LET req == [w |-> w, r |-> r, len |-> len]
        tx_len == TxLen(len, w)
        code == RejectCode(tx_len, busy)
        io == IoLen(tx_len, RxLen(r))
        n == FirstBurst(tx_len, io)
        fifo1 == TxWrite(txfifo, SubSeq(w.bytes, 1, n))
        rx_offset1 == IF r = NoBuf THEN rx_offset ELSE 0
    IN  /\ fault = "none"
        /\ ncalls < MaxCalls
        /\ IF code # "OK"
           THEN /\ ev' = [Ev("read_write_bytes", code, w, r, 0) EXCEPT !.req = req]
                /\ nsub' = nsub + 1
                /\ ncalls' = ncalls + 1
                /\ UNCHANGED <<drv, regs, hw, overflow_checks, fault, nacc, ncb, cur, pushed>>
           ELSE IF n > Len(w.bytes)
           THEN Panic("slice_index")
           ELSE IF n = 0 /\ overflow_checks
           THEN Panic("overflow")
           ELSE /\ busy' = TRUE
                /\ txfifo' = fifo1
                /\ io_len' = io
                /\ tx_offset' = n
                /\ tx_buf' = w
                /\ rx_offset' = rx_offset1
                /\ rx_buf' = IF r = NoBuf THEN rx_buf ELSE r
                /\ rxmark' = FieldVal(n - 1, MarkBits)
                /\ txmark' = IF rx_offset1 # io THEN FieldVal(1, MarkBits) ELSE txmark
                /\ ie' = [txwm |-> FALSE, rxwm |-> TRUE]
                /\ ev' = [Ev("read_write_bytes", "OK", NoBuf, NoBuf, 0) EXCEPT !.req = req]
                /\ nsub' = nsub + 1
                /\ nacc' = IF client THEN nacc + 1 ELSE nacc
                /\ cur' = req
                /\ pushed' = Len(fifo1) - Len(txfifo)
                /\ UNCHANGED <<client, sckdiv, sckmode, csid, csdef, csmode, fmt,
                               rxfifo, overflow_checks, fault, ncb>>
                /\ ncalls' = ncalls + 1

(***************************************************************************)
(* SpiMaster::read_write_byte, write_byte, read_byte: the blocking         *)
(* exchange.  The spin on rxdata_empty ends when the first byte is in the  *)
(* receive FIFO: at once if it already holds one, else after the hardware  *)
(* has shifted the head of the transmit FIFO.                              *)
(***************************************************************************)
ByteExchange(op, val, keep) ==
    /\ fault = "none"
    /\ ncalls < MaxCalls
    /\ ncalls' = ncalls + 1
    /\ IF busy
       THEN /\ ev' = [Ev(op, "BUSY", NoBuf, NoBuf, 0) EXCEPT !.arg = val]
            /\ UNCHANGED hw
       ELSE LET fifo1 == TxWrite(txfifo, <<val>>)
            IN  IF rxfifo = <<>>
                THEN /\ txfifo' = Tail(fifo1)
                     /\ rxfifo' = <<>>
                     /\ ev' = [Ev(op, "OK", NoBuf, NoBuf, IF keep THEN Head(fifo1) ELSE 0)
                              EXCEPT !.arg = val]
                ELSE /\ txfifo' = fifo1
                     /\ rxfifo' = Tail(rxfifo)
                     /\ ev' = [Ev(op, "OK", NoBuf, NoBuf, IF keep THEN Head(rxfifo) ELSE 0)
                              EXCEPT !.arg = val]
    /\ UNCHANGED <<drv, regs, overflow_checks, fault, obs>>

read_write_byte(val) == ByteExchange("read_write_byte", val, TRUE)
write_byte(val) == ByteExchange("write_byte", val, FALSE)
read_byte == ByteExchange("read_byte", 0, TRUE)

\* a mutant of specify_chip_select: it tests busy as the other setters do
specify_chip_select_BusyTest(cs) ==
    /\ fault = "none"
    /\ ncalls < MaxCalls
    /\ ncalls' = ncalls + 1
    /\ csid' = IF busy THEN csid ELSE cs
    /\ ev' = [Ev("specify_chip_select", IF busy THEN "BUSY" ELSE "OK", NoBuf, NoBuf, 0)
              EXCEPT !.arg = cs]
    /\ UNCHANGED <<drv, sckdiv, sckmode, csdef, csmode, fmt, txmark, rxmark, ie,
                   hw, overflow_checks, fault, obs>>

specify_chip_select(cs) ==
    /\ fault = "none"
    /\ ncalls < MaxCalls
    /\ ncalls' = ncalls + 1
    /\ csid' = cs
    /\ ev' = [Ev("specify_chip_select", "OK", NoBuf, NoBuf, 0) EXCEPT !.arg = cs]
    /\ UNCHANGED <<drv, sckdiv, sckmode, csdef, csmode, fmt, txmark, rxmark, ie,
                   hw, overflow_checks, fault, obs>>

(***************************************************************************)
(* SpiMaster::set_rate, get_rate                                           *)
(***************************************************************************)
RateOutOfRange(rate) == rate < MinRate \/ rate > RefClock
\* a mutant of Divisor: the - 1 is missing
Divisor_NoMinusOne(rate) == RefClock \div rate
Divisor(rate) == RefClock \div rate - 1

set_rate(rate) ==
    /\ fault = "none"
    /\ ncalls < MaxCalls
    /\ ncalls' = ncalls + 1
    /\ IF RateOutOfRange(rate)
       THEN /\ ev' = [Ev("set_rate", "INVAL", NoBuf, NoBuf, 0) EXCEPT !.arg = rate]
            /\ UNCHANGED sckdiv
       ELSE IF busy
       THEN /\ ev' = [Ev("set_rate", "BUSY", NoBuf, NoBuf, 0) EXCEPT !.arg = rate]
            /\ UNCHANGED sckdiv
       ELSE LET real_rate == rate
            IN  /\ sckdiv' = FieldVal(Divisor(real_rate), DivBits)
                /\ ev' = [Ev("set_rate", "OK", NoBuf, NoBuf, real_rate) EXCEPT !.arg = rate]
    /\ UNCHANGED <<drv, sckmode, csid, csdef, csmode, fmt, txmark, rxmark, ie,
                   hw, overflow_checks, fault, obs>>

get_rate == RefClock \div (sckdiv + 1)

(***************************************************************************)
(* SpiMaster::set_polarity, get_polarity, set_phase, get_phase.            *)
(* sckmode.write(FIELD.val(v)) writes the whole register: the fields not   *)
(* named are written as zero.                                              *)
(***************************************************************************)
PolarityVal(polarity) == IF polarity = "IdleLow" THEN 0 ELSE 1
PhaseVal(phase) == IF phase = "SampleLeading" THEN 0 ELSE 1

set_polarity(polarity) ==
    /\ fault = "none"
    /\ ncalls < MaxCalls
    /\ ncalls' = ncalls + 1
    /\ IF busy
       THEN /\ ev' = [Ev("set_polarity", "BUSY", NoBuf, NoBuf, 0) EXCEPT !.arg = polarity]
            /\ UNCHANGED sckmode
       ELSE /\ sckmode' = [pha |-> 0, pol |-> PolarityVal(polarity)]
            /\ ev' = [Ev("set_polarity", "OK", NoBuf, NoBuf, 0) EXCEPT !.arg = polarity]
    /\ UNCHANGED <<drv, sckdiv, csid, csdef, csmode, fmt, txmark, rxmark, ie,
                   hw, overflow_checks, fault, obs>>

get_polarity == IF sckmode.pol = 0 THEN "IdleLow" ELSE "IdleHigh"

\* a mutant of set_phase: the busy test is missing
set_phase_NoBusyTest(phase) ==
    /\ fault = "none"
    /\ ncalls < MaxCalls
    /\ ncalls' = ncalls + 1
    /\ sckmode' = [pha |-> PhaseVal(phase), pol |-> 0]
    /\ ev' = [Ev("set_phase", "OK", NoBuf, NoBuf, 0) EXCEPT !.arg = phase]
    /\ UNCHANGED <<drv, sckdiv, csid, csdef, csmode, fmt, txmark, rxmark, ie,
                   hw, overflow_checks, fault, obs>>

set_phase(phase) ==
    /\ fault = "none"
    /\ ncalls < MaxCalls
    /\ ncalls' = ncalls + 1
    /\ IF busy
       THEN /\ ev' = [Ev("set_phase", "BUSY", NoBuf, NoBuf, 0) EXCEPT !.arg = phase]
            /\ UNCHANGED sckmode
       ELSE /\ sckmode' = [pha |-> PhaseVal(phase), pol |-> 0]
            /\ ev' = [Ev("set_phase", "OK", NoBuf, NoBuf, 0) EXCEPT !.arg = phase]
    /\ UNCHANGED <<drv, sckdiv, csid, csdef, csmode, fmt, txmark, rxmark, ie,
                   hw, overflow_checks, fault, obs>>

get_phase == IF sckmode.pha = 0 THEN "SampleLeading" ELSE "SampleTrailing"

hold_low ==
    /\ fault = "none"
    /\ ncalls < MaxCalls
    /\ ncalls' = ncalls + 1
    /\ csmode' = "HOLD"
    /\ ev' = Ev("hold_low", "OK", NoBuf, NoBuf, 0)
    /\ UNCHANGED <<drv, sckdiv, sckmode, csid, csdef, fmt, txmark, rxmark, ie,
                   hw, overflow_checks, fault, obs>>

release_low ==
    /\ fault = "none"
    /\ ncalls < MaxCalls
    /\ ncalls' = ncalls + 1
    /\ csmode' = "AUTO"
    /\ ev' = Ev("release_low", "OK", NoBuf, NoBuf, 0)
    /\ UNCHANGED <<drv, sckdiv, sckmode, csid, csdef, fmt, txmark, rxmark, ie,
                   hw, overflow_checks, fault, obs>>

(***************************************************************************)
(* Spi::handle_interrupt.  The three parts of the handler are computed in  *)
(* the order the code runs them; the first assertion, index, unwrap or     *)
(* overflow that fails is the panic of the invocation.                     *)
(***************************************************************************)
\* rx_buf[off .. off+n) = data
Store(bytes, off, data) ==
    [i \in 1..Len(bytes) |->
        IF i > off /\ i <= off + Len(data) THEN data[i - off] ELSE bytes[i]]

\* bytes the drain loop reads: until rx_offset == tx_offset
DrainCount == IF rx_offset <= tx_offset THEN tx_offset - rx_offset ELSE FifoDepth + 1

\* the receive phase's panic, if any (spi.rs:378-400)
RxPhaseFault ==
    LET need == DrainCount
        have == Len(rxfifo)
        room == IF rx_buf = NoBuf THEN need ELSE Len(rx_buf.bytes) - rx_offset
    IN  IF need > have /\ have <= room THEN "assert_rx_not_empty"
        ELSE IF need > room THEN "index_out_of_bounds"
        ELSE IF rx_buf # NoBuf /\ have > need THEN "assert_rx_empty"
        ELSE "none"

\* the end of the next burst (spi.rs:414)
EndOffset(off, io) == Min(off + Burst, io)

\* the transmit phase's panic, if any (spi.rs:416-432), at offset off
TxPhaseFault(off) ==
    LET end_offset == EndOffset(off, io_len)
    IN  IF tx_buf # NoBuf /\ (off > end_offset \/ end_offset > Len(tx_buf.bytes))
        THEN "slice_index"
        ELSE IF tx_buf # NoBuf /\ end_offset > off
                /\ Len(txfifo) + (end_offset - off) > FifoDepth
        THEN "assert_tx_not_full"
        ELSE IF end_offset - off - 1 < 0 /\ overflow_checks
        THEN "overflow"
        ELSE "none"

\* the completion test (spi.rs:437-438)
IsDone(tx_off, rx_off, io) == tx_off = io /\ rx_off = io

\* a mutant of ReleaseFrame: the mode is left at AUTO
ReleaseFrame_NoHold(mode) == <<"AUTO">>
\* the modes written to csmode at completion, in order (spi.rs:441-443)
ReleaseFrame(mode) == <<"AUTO", "HOLD">>

\* the body of handle_interrupt, from whatever state it is entered in
HandlerRun ==
    LET rx_watermark == IpRxwm
        need == DrainCount
        rxf == IF rx_watermark THEN RxPhaseFault ELSE "none"
        drained == SubSeq(rxfifo, 1, need)
        rxfifo1 == IF rx_watermark THEN SubSeq(rxfifo, need + 1, Len(rxfifo)) ELSE rxfifo
        rx_buf1 == IF rx_watermark /\ rx_buf # NoBuf
                   THEN [rx_buf EXCEPT !.bytes = Store(@, rx_offset, drained)]
                   ELSE rx_buf
        rx_offset1 == IF rx_watermark THEN tx_offset ELSE rx_offset
        ie1 == IF rx_watermark /\ tx_offset # io_len
               THEN [txwm |-> TRUE, rxwm |-> FALSE] ELSE ie
        tx_watermark == IpTxwm
        end_offset == EndOffset(tx_offset, io_len)
        txf == IF tx_watermark THEN TxPhaseFault(tx_offset) ELSE "none"
        sent == IF tx_watermark /\ tx_buf # NoBuf
                THEN SubSeq(tx_buf.bytes, tx_offset + 1, end_offset) ELSE <<>>
        txfifo1 == TxWrite(txfifo, sent)
        tx_offset1 == IF tx_watermark /\ tx_buf # NoBuf THEN end_offset ELSE tx_offset
        rxmark1 == IF tx_watermark
                   THEN FieldVal(end_offset - tx_offset - 1, MarkBits)
                   ELSE rxmark
        ie2 == IF tx_watermark THEN [txwm |-> FALSE, rxwm |-> TRUE] ELSE ie1
        done == IsDone(tx_offset1, rx_offset1, io_len)
        unwrapf == IF done /\ client /\ tx_buf = NoBuf THEN "unwrap_none" ELSE "none"
        f == IF rxf # "none" THEN rxf ELSE IF txf # "none" THEN txf ELSE unwrapf
        frame == ReleaseFrame(csmode)
        csmode3 == frame[Len(frame)]
        ie3 == [txwm |-> FALSE, rxwm |-> FALSE]
        seen == [entry |-> csmode, frame |-> frame, csmode |-> csmode3,
                 ie |-> ie3, busy |-> busy]
    IN  /\ fault = "none"
        /\ IF f # "none"
           THEN Panic(f)
           ELSE /\ rxfifo' = rxfifo1
                /\ txfifo' = txfifo1
                /\ rxmark' = rxmark1
                /\ IF done
                   THEN /\ csmode' = csmode3
                        /\ ie' = ie3
                        /\ tx_buf' = IF client THEN NoBuf ELSE tx_buf
                        /\ rx_buf' = IF client THEN NoBuf ELSE rx_buf1
                        /\ ev' = IF client
                                 THEN [Ev("handle_interrupt", "OK", tx_buf, rx_buf1, io_len)
                                        EXCEPT !.cb = TRUE, !.req = cur,
                                               !.pushed = pushed + Len(txfifo1) - Len(txfifo),
                                               !.seen = seen]
                                 ELSE [Ev("handle_interrupt", "OK", NoBuf, NoBuf, 0)
                                        EXCEPT !.seen = seen]
                        /\ ncb' = IF client THEN ncb + 1 ELSE ncb
                        /\ io_len' = 0
                        /\ rx_offset' = 0
                        /\ tx_offset' = 0
                        /\ busy' = FALSE
                        /\ cur' = NoReq
                        /\ pushed' = 0
                   ELSE /\ ie' = ie2
                        /\ rx_buf' = rx_buf1
                        /\ rx_offset' = rx_offset1
                        /\ tx_offset' = tx_offset1
                        /\ ev' = Ev("handle_interrupt", "OK", NoBuf, NoBuf, 0)
                        /\ pushed' = pushed + Len(txfifo1) - Len(txfifo)
                        /\ UNCHANGED <<csmode, tx_buf, io_len, busy, ncb, cur>>
                /\ UNCHANGED <<client, sckdiv, sckmode, csid, csdef, fmt, txmark,
                               overflow_checks, fault, nsub, nacc, ncalls>>

\* the dispatcher runs the handler when an enabled interrupt is pending
handle_interrupt == IrqPending /\ HandlerRun

(***************************************************************************)
(* The hardware and the loopback peer: the head of the transmit FIFO is    *)
(* shifted out and the byte clocked back in at the same time enters the    *)
(* receive FIFO (lost if that FIFO is full).                               *)
(***************************************************************************)
Shift ==
    /\ fault = "none"
    /\ txfifo # <<>>
    /\ txfifo' = Tail(txfifo)
    /\ rxfifo' = IF Len(rxfifo) < FifoDepth THEN Append(rxfifo, Head(txfifo)) ELSE rxfifo
    /\ ev' = Ev("shift", "OK", NoBuf, NoBuf, 0)
    /\ UNCHANGED <<drv, regs, overflow_checks, fault, obs, ncalls>>

Submit ==
    \E sh \in Shapes :
        read_write_bytes(WriteBuffer(nsub + 1, sh[1]),
                         IF sh[2] = -1 THEN NoBuf ELSE ReadBuffer(nsub + 1, sh[2]),
                         sh[3])

Next ==
    \/ init
    \/ set_client
    \/ Submit
    \/ \E v \in ByteVals : read_write_byte(v)
    \/ \E v \in ByteVals : write_byte(v)
    \/ read_byte
    \/ \E cs \in ChipSelects : specify_chip_select(cs)
    \/ \E rate \in Rates : set_rate(rate)
    \/ \E p \in {"IdleLow", "IdleHigh"} : set_polarity(p)
    \/ \E p \in {"SampleLeading", "SampleTrailing"} : set_phase(p)
    \/ hold_low
    \/ release_low
    \/ handle_interrupt
    \/ Shift

Spec == Init /\ [][Next]_vars

(***************************************************************************)
(* The peer shifts every byte that is in the transmit FIFO and the         *)
(* dispatcher runs the handler whenever an enabled interrupt is pending.   *)
(***************************************************************************)
FairSpec == Spec /\ WF_vars(Shift) /\ WF_vars(handle_interrupt)

(***************************************************************************)
(* A spurious or late interrupt: the handler is entered while no           *)
(* transaction is in flight, with the pending flags as the FIFOs and the   *)
(* watermarks make them.                                                   *)
(***************************************************************************)
Idle == ~busy /\ io_len = 0 /\ tx_offset = 0 /\ rx_offset = 0
spurious_interrupt == Idle /\ HandlerRun
SpuriousNext == Next \/ spurious_interrupt
SpuriousSpec == Init /\ [][SpuriousNext]_vars

(***************************************************************************)
(* set_rate as a function of the requested rate: an idle driver, and       *)
(* rates around both ends of the range and across it.                      *)
(***************************************************************************)
RateSamples ==
    (MinRate - 8 .. MinRate + 40) \cup (RefClock - 8 .. RefClock + 8)
        \cup {1000 * k : k \in 1..40} \cup {250000 * k : k \in 1..33}
RateNext == \E rate \in RateSamples : set_rate(rate)
RateSpec == Init /\ [][RateNext]_vars

(***************************************************************************)
(* What the claims speak of.                                               *)
(***************************************************************************)
\* the step just taken was a call of read_write_bytes
SubmitStep == nsub' = nsub + 1 /\ ev'.op = "read_write_bytes"
\* the transfer state, the registers and the FIFOs are as they were
DriverUnchanged == UNCHANGED <<xfer, regs, hw>>
\* min(len(write_buffer), len, len(read_buffer) if one is present)
ClaimedLen(req) ==
    LET n == Min(Len(req.w.bytes), req.len)
    IN  IF req.r = NoBuf THEN n ELSE Min(n, Len(req.r.bytes))
\* no step of the hardware or of the handler is possible
Quiescent == txfifo = <<>> /\ ~IrqPending

(* C1: in every reachable state, between operations,                       *)
(* 0 <= rx_offset <= tx_offset <= io_len.                                  *)
C1_OffsetsOrdered ==
    0 <= rx_offset /\ rx_offset <= tx_offset /\ tx_offset <= io_len

C1_Witness ==
    busy /\ 0 < rx_offset /\ rx_offset < tx_offset /\ tx_offset = io_len

(* C2: every submission accepted with a client registered gets exactly one *)
(* completion callback: never more callbacks than such submissions, the    *)
(* state is back to idle right after the callback, a transaction in flight *)
(* can still make progress towards its callback, and once the driver is    *)
(* idle again every such submission has had its callback.                  *)
C2_CallbackExactlyOnce ==
    /\ ncb <= nacc
    /\ ev.cb => ~busy /\ io_len = 0 /\ rx_offset = 0 /\ tx_offset = 0
    /\ ev.op = "read_write_bytes" => ~ev.cb
    /\ (busy /\ client /\ fault = "none") => ~Quiescent
    /\ (~busy /\ client) => ncb = nacc

(* C3: the length an accepted submission carries to its completion         *)
(* callback is min(len(write_buffer), len, len(read_buffer) if present):   *)
(* an absent read buffer does not reduce it.                               *)
C3_CallbackLength ==
    /\ busy => io_len = ClaimedLen(cur)
    /\ ev.cb => ev.val = ClaimedLen(ev.req)

(* C4 (as claimed): every read_write_bytes call made while busy, length 0  *)
(* included, returns Busy with the same buffers and changes nothing.       *)
C4_BusyAlwaysBusy ==
    [][(busy /\ SubmitStep) =>
            /\ ev'.code = "BUSY"
            /\ ev'.w = ev'.req.w /\ ev'.r = ev'.req.r
            /\ DriverUnchanged]_vars

(* C4 (amended): a read_write_bytes call made while busy is rejected with  *)
(* the same buffers and changes nothing; the error is Busy when            *)
(* min(len, len(write_buffer)) > 0 and InvalidArgument when it is 0.       *)
C4_BusyRejects ==
    [][(busy /\ SubmitStep) =>
            /\ ev'.code = IF Min(ev'.req.len, Len(ev'.req.w.bytes)) = 0
                          THEN "INVAL" ELSE "BUSY"
            /\ ev'.w = ev'.req.w /\ ev'.r = ev'.req.r
            /\ DriverUnchanged]_vars

C4_Witness ==
    /\ busy /\ tx_offset > 0
    /\ ev.op = "read_write_bytes" /\ ev.code = "BUSY"
    /\ ev.w = ev.req.w /\ ev.w # tx_buf

(* C5: a read_write_bytes call with an empty write buffer or with len 0    *)
(* returns InvalidArgument and both buffers, and changes nothing: busy,    *)
(* the buffer cells, the FIFOs, the transfer state and the registers.      *)
C5_EmptyRejected ==
    [][(SubmitStep /\ (Len(ev'.req.w.bytes) = 0 \/ ev'.req.len = 0)) =>
            /\ ev'.code = "INVAL"
            /\ ev'.w = ev'.req.w /\ ev'.r = ev'.req.r
            /\ DriverUnchanged]_vars

C5_Witness ==
    /\ ev.op = "read_write_bytes" /\ ev.code = "INVAL"
    /\ ev.req.len = 0 /\ Len(ev.req.w.bytes) > 0 /\ ev.w = ev.req.w
    /\ ~busy /\ tx_buf = NoBuf

(* C6: a write-only transfer of N >= 1 bytes pushes exactly N bytes to the *)
(* transmit FIFO over its life, and its callback reports N, returns the    *)
(* write buffer and no read buffer.                                        *)
C6_WriteOnlyPushesAll ==
    /\ (busy /\ cur # NoReq /\ cur.r = NoBuf /\ fault = "none" /\ Quiescent)
            => pushed = ClaimedLen(cur)
    /\ (ev.cb /\ ev.req # NoReq /\ ev.req.r = NoBuf)
            => /\ ev.val = ClaimedLen(ev.req)
               /\ ev.pushed = ClaimedLen(ev.req)
               /\ ev.w = ev.req.w /\ ev.r = NoBuf

(* C7: every buffer passed to read_write_bytes is returned exactly once,   *)
(* at once on rejection and else by the callback: so while not busy both   *)
(* buffer cells are empty, and while busy tx_buf holds the submitted write *)
(* buffer; after any operations, init included.                            *)
C7_BuffersReturned ==
    /\ ~busy => tx_buf = NoBuf /\ rx_buf = NoBuf
    /\ busy => tx_buf = cur.w
    /\ (ev.op = "read_write_bytes" /\ ev.code # "OK")
            => ev.w = ev.req.w /\ ev.r = ev.req.r
    /\ ev.cb => ev.w = ev.req.w

(* C8: with a fair peer and dispatcher every accepted submission reaches   *)
(* completion: busy becomes false again.  Stated of the submissions made   *)
(* while the caller still has calls left, so that a transaction that never *)
(* completes is one the caller could still act on.                         *)
C8_Completes ==
    (busy /\ fault = "none" /\ ncalls < MaxCalls) ~> (~busy \/ ncalls = MaxCalls)

(* C9: with a read buffer and a loopback peer, at completion               *)
(* read_buffer[i] = write_buffer[i] for i < io_len, and the bytes from     *)
(* io_len on are as submitted.                                             *)
C9_Loopback ==
    (ev.cb /\ ev.r # NoBuf) =>
        \A i \in 1..Len(ev.r.bytes) :
            ev.r.bytes[i] = IF i <= ev.val THEN ev.w.bytes[i] ELSE 0

(* C10: when idle, set_rate(hz) succeeds iff 1954 <= hz <= 8000000; on     *)
(* success the divisor register is floor(8000000 / hz) - 1, within 0..4095 *)
(* and so not truncated, and hz is returned; on failure the error is       *)
(* InvalidArgument and the divisor register is unchanged.                  *)
C10_SetRate ==
    [][(~busy /\ ev'.op = "set_rate" /\ ncalls' = ncalls + 1) =>
            LET hz == ev'.arg
            IN  IF 1954 <= hz /\ hz <= 8000000
                THEN /\ ev'.code = "OK"
                     /\ ev'.val = hz
                     /\ sckdiv' = (8000000 \div hz) - 1
                     /\ sckdiv' \in 0..4095
                ELSE /\ ev'.code = "INVAL"
                     /\ sckdiv' = sckdiv]_vars

C10_Witness ==
    ev.op = "set_rate" /\ ev.code = "OK" /\ ev.arg = 1954 /\ sckdiv = 4093

(* C11: for every hz that set_rate accepts, get_rate() afterwards is       *)
(* floor(8000000 / (divisor + 1)) for the divisor just programmed, and     *)
(* that value is at most hz.                                               *)
C11_RateNotExceeded ==
    (ev.op = "set_rate" /\ ev.code = "OK") =>
        /\ get_rate = 8000000 \div (sckdiv + 1)
        /\ get_rate <= ev.arg

(* C12: while busy, set_rate with a rate in range, set_polarity,           *)
(* set_phase, write_byte, read_byte and read_write_byte return Busy and    *)
(* leave the registers, the FIFOs and the transfer state unchanged.        *)
C12_BusyControlRejected ==
    [][(/\ busy
        /\ ncalls' = ncalls + 1
        /\ ev'.op \in {"set_rate", "set_polarity", "set_phase",
                       "write_byte", "read_byte", "read_write_byte"}
        /\ (ev'.op = "set_rate" => (1954 <= ev'.arg /\ ev'.arg <= 8000000)))
            => (ev'.code = "BUSY" /\ DriverUnchanged)]_vars

C12_Witness ==
    /\ busy /\ tx_offset > 0 /\ txfifo # <<>>
    /\ ev.op = "set_phase" /\ ev.code = "BUSY" /\ ev.arg = "SampleTrailing"
    /\ sckmode.pha = 0

(* C13: busy goes from true to false only in the completion step of        *)
(* handle_interrupt, which calls the client back if there is one; no other *)
(* operation clears it.                                                    *)
C13_BusyClearsOnlyOnCompletion ==
    [][(busy /\ ~busy') =>
            (ev'.op = "handle_interrupt" /\ (client => ev'.cb))]_vars

(* C14: specify_chip_select(id) returns success, busy or not, and changes  *)
(* the chip-select id register only: the transfer state, the buffers, the  *)
(* FIFOs and every other register are as they were.                        *)
C14_ChipSelectOnly ==
    [][(ev'.op = "specify_chip_select" /\ ncalls' = ncalls + 1) =>
            /\ ev'.code = "OK"
            /\ csid' = ev'.arg
            /\ UNCHANGED <<xfer, hw, sckdiv, sckmode, csdef, csmode, fmt,
                           txmark, rxmark, ie>>]_vars

C14_Witness ==
    /\ busy /\ tx_offset > 0 /\ ie.rxwm
    /\ ev.op = "specify_chip_select" /\ ev.code = "OK" /\ ev.arg = 1 /\ csid = 1

(* C15: with FIFOs of depth 8 and a peer that returns one byte per byte    *)
(* sent, no assertion of the handler fails (receive FIFO empty before the  *)
(* offsets match, receive FIFO not empty after the drain, transmit FIFO    *)
(* full before a push), and no step pushes or drains more than 7 bytes.    *)
C15_NoAssertionFails ==
    [][/\ fault' \notin {"assert_rx_not_empty", "assert_rx_empty", "assert_tx_not_full"}
       /\ Len(txfifo') - Len(txfifo) <= 7
       /\ Len(rxfifo) - Len(rxfifo') <= 7]_vars

\* the step just taken was an accepted read_write_bytes
AcceptStep == SubmitStep /\ ev'.code = "OK"
\* the front of the submitted write buffer
Front(req, n) == SubSeq(req.w.bytes, 1, n)

C17_ThresholdNeverUnderflows ==
    fault # "overflow" /\ rxmark \in 0..6

(* C18: the completion step writes AUTO and then HOLD to the chip-select   *)
(* mode and disables both watermark interrupts, before the callback and    *)
(* before busy is cleared; after every completed transaction the mode is   *)
(* HOLD and both interrupts are disabled, whatever hold_low or release_low *)
(* did during the transfer.                                                *)
C18_CompletionFrame ==
    [][(busy /\ ~busy' /\ ev'.op = "handle_interrupt") =>
            /\ ev'.seen.frame = <<"AUTO", "HOLD">>
            /\ ev'.seen.csmode = "HOLD"
            /\ ev'.seen.ie = [txwm |-> FALSE, rxwm |-> FALSE]
            /\ ev'.seen.busy
            /\ csmode' = "HOLD"
            /\ ie' = [txwm |-> FALSE, rxwm |-> FALSE]]_vars

C18_Witness ==
    /\ ev.cb /\ ev.val > 0 /\ ~busy
    /\ ev.seen.entry = "AUTO" /\ ev.seen.busy
    /\ csmode = "HOLD" /\ ~ie.txwm /\ ~ie.rxwm

(* C19: polarity and phase are independent: when idle, set_polarity(p)     *)
(* makes get_polarity() = p and leaves get_phase() as it was, and          *)
(* set_phase(h) makes get_phase() = h and leaves get_polarity() as it was. *)
C19_ModeIndependent ==
    [][/\ (ev'.op = "set_polarity" /\ ev'.code = "OK" /\ ncalls' = ncalls + 1)
            => (get_polarity' = ev'.arg /\ get_phase' = get_phase)
       /\ (ev'.op = "set_phase" /\ ev'.code = "OK" /\ ncalls' = ncalls + 1)
            => (get_phase' = ev'.arg /\ get_polarity' = get_polarity)]_vars

(* C20: a handle_interrupt invocation with no transaction in flight does   *)
(* not call the client back, does not fault on the empty transmit-buffer   *)
(* cell, and leaves busy, the offsets and the buffer cells unchanged.      *)
C20_SpuriousHarmless ==
    [][Idle =>
            /\ fault' # "unwrap_none"
            /\ (fault' = "none" /\ ev'.op = "handle_interrupt") =>
                    /\ ~ev'.cb
                    /\ UNCHANGED <<busy, io_len, tx_offset, rx_offset, tx_buf, rx_buf>>]_vars

====
